---------------------------- MODULE Spec2Model ----------------------------
(***************************************************************************)
(* A model of script.js: the liquidation-history fetcher.                  *)
(*                                                                         *)
(*   - parseLiquidationData and convertToCSV are operators, computed the   *)
(*     way the code computes them, and exercised on bounded inputs by      *)
(*     SpecParse and SpecCSV;                                              *)
(*   - fetchAndDownload is a state machine (Spec, FairSpec): a click runs  *)
(*     the handler up to its first await, the network settles the fetch    *)
(*     and the body read, and each continuation runs to its next await or  *)
(*     to the end of the handler, finally block included.                  *)
(*                                                                         *)
(* Text.  A JavaScript string that the code inspects character by          *)
(* character (form fields, CSV cells, the CSV document) is a sequence of   *)
(* chunks; every comma, double quote, line feed and blank is a chunk of    *)
(* its own, and a chunk such as "100" or "symbol" holds none of them.      *)
(* Status messages are TLA+ strings built with \o.                         *)
(*                                                                         *)
(* JavaScript values are records [ty, n, s]; objects are sequences of      *)
(* <<key, value>> pairs in property order.                                 *)
(***************************************************************************)
EXTENDS Integers, Sequences, FiniteSets, TLC

VARIABLES
    disabled,           \* fetchButton.disabled
    status,             \* the status div: [message, type, shown]
    inflight,           \* the fetchAndDownload calls suspended at an await
    fetchCount,         \* number of calls of fetch() so far
    downloads,          \* number of link.click() downloads so far
    alerts,             \* number of alert() notices so far
    downloadSupported,  \* whether link.download !== undefined in this browser
    clicks,             \* number of handler invocations so far
    ended,              \* number of handler invocations that have returned
    last,               \* the invocation that returned last, if none began since
    pIn, pOut,          \* SpecParse: argument and result of parseLiquidationData
    cIn, cOut           \* SpecCSV: argument and result of convertToCSV

pipeVars == <<disabled, status, inflight, fetchCount, downloads, alerts,
              downloadSupported, clicks, ended, last>>
parseVars == <<pIn, pOut>>
csvVars == <<cIn, cOut>>
vars == <<pipeVars, parseVars, csvVars>>

----------------------------------------------------------------------------
(* Bounds of the model.                                                    *)

MaxEntries == 2     \* entries of a response array given to the flattener
MaxHistory == 2     \* history items of one entry
MaxRows == 2        \* records given to convertToCSV
MaxStrLen == 2      \* characters of a string value in a CSV record
MaxDay == 1         \* calendar days (from 1970-01-01) offered by the date fields
MaxClicks == 2      \* handler invocations in one behaviour

----------------------------------------------------------------------------
(* JavaScript values.                                                      *)

Undefined == [ty |-> "undefined", n |-> 0, s |-> <<>>]
Null == [ty |-> "null", n |-> 0, s |-> <<>>]
Num(k) == [ty |-> "num", n |-> k, s |-> <<>>]
Str(cs) == [ty |-> "str", n |-> 0, s |-> cs]

\* ToBoolean: undefined, null, 0 and "" are falsy.
Truthy(v) ==
    CASE v.ty = "undefined" -> FALSE
      [] v.ty = "null" -> FALSE
      [] v.ty = "num" -> v.n # 0
      [] OTHER -> v.s # <<>>

\* String(v) as chunks.
StringOf(v) ==
    CASE v.ty = "undefined" -> <<"undefined">>
      [] v.ty = "null" -> <<"null">>
      [] v.ty = "num" -> <<ToString(v.n)>>
      [] OTHER -> v.s

RECURSIVE Join(_)
\* The chunks of a text as one string.
Join(cs) == IF cs = <<>> THEN "" ELSE Head(cs) \o Join(Tail(cs))

\* Object.keys(obj): the property names in property order.
Keys(obj) == [i \in 1..Len(obj) |-> obj[i][1]]

HasProp(obj, k) == \E i \in 1..Len(obj) : obj[i][1] = k

\* obj[k]: undefined for a missing property.
GetProp(obj, k) ==
    IF HasProp(obj, k)
    THEN obj[CHOOSE i \in 1..Len(obj) : obj[i][1] = k][2]
    ELSE Undefined

\* obj[k] = v: an existing property keeps its place, a new one goes last.
SetProp(obj, k, v) ==
    IF HasProp(obj, k)
    THEN [i \in 1..Len(obj) |-> IF obj[i][1] = k THEN <<k, v>> ELSE obj[i]]
    ELSE Append(obj, <<k, v>>)

----------------------------------------------------------------------------
(* Date: toISOString and the parse of a date field.  Epochs of the model   *)
(* lie in 1970, so the calendar is that of 1970 and local time is UTC.     *)

MsPerDay == 86400000

Pad2(k) == IF k < 10 THEN "0" \o ToString(k) ELSE ToString(k)

Pad3(k) == IF k < 10 THEN "00" \o ToString(k)
           ELSE IF k < 100 THEN "0" \o ToString(k) ELSE ToString(k)

MonthLengths == <<31, 28, 31, 30, 31, 30, 31, 31, 30, 31, 30, 31>>

RECURSIVE MonthDay(_, _)
\* <<month, day of month>> of day-of-year d (0 = 1 January), from month m on.
MonthDay(d, m) ==
    IF d < MonthLengths[m] THEN <<m, d + 1>> ELSE MonthDay(d - MonthLengths[m], m + 1)

\* The YYYY-MM-DD of the day that starts `day` days after the epoch.
DateString(day) ==
    LET md == MonthDay(day, 1)
    IN  ToString(1970) \o "-" \o Pad2(md[1]) \o "-" \o Pad2(md[2])

\* new Date(ms).toISOString()
ToISOString(ms) ==
    DateString(ms \div MsPerDay) \o "T"
        \o Pad2((ms \div 3600000) % 24) \o ":"
        \o Pad2((ms \div 60000) % 60) \o ":"
        \o Pad2((ms \div 1000) % 60) \o "."
        \o Pad3(ms % 1000) \o "Z"

----------------------------------------------------------------------------
(* parseLiquidationData.  A response body is [kind, items, error]: kind    *)
(* "null" (a falsy body), "object" (a JSON object, with its `error`        *)
(* property) or "array" (with its items).  An array item is                *)
(* [isNull, symbol, history], history being [kind, items] with kind        *)
(* "undefined", "object" (a truthy non-array) or "array".                  *)

NullBody == [kind |-> "null", items |-> <<>>, error |-> Undefined]
ObjectBody(err) == [kind |-> "object", items |-> <<>>, error |-> err]
ArrayBody(es) == [kind |-> "array", items |-> es, error |-> Undefined]

NoHistory == [kind |-> "undefined", items |-> <<>>]
ObjectHistory == [kind |-> "object", items |-> <<>>]
ArrayHistory(hs) == [kind |-> "array", items |-> hs]

NullEntry == [isNull |-> TRUE, symbol |-> Undefined, history |-> NoHistory]
Entry(sym, hist) == [isNull |-> FALSE, symbol |-> sym, history |-> hist]

\* The guard of line 25 negated: the argument is a (truthy) array.
IsArrayData(data) == data.kind = "array"

ValidSymbolDataNoSymbolCheck(symbolData) ==
    /\ ~symbolData.isNull
    /\ symbolData.history.kind = "array"

\* The guard of line 31 negated: the entry is kept.
ValidSymbolData(symbolData) ==
    /\ ~symbolData.isNull
    /\ Truthy(symbolData.symbol)
    /\ symbolData.history.kind = "array"

\* Lines 38-41: the body of the inner forEach, on one history entry.
StampEntry(entry, symbol) ==
    LET stamped == SetProp(entry, "symbol", symbol)
        t == GetProp(stamped, "t")
    IN  IF Truthy(t)
        THEN SetProp(stamped, "timestamp_iso", Str(<<ToISOString(t.n)>>))
        ELSE stamped

\* Lines 36-43: the inner forEach over one entry's history.
StampHistory(history, symbol) ==
    [j \in 1..Len(history) |-> StampEntry(history[j], symbol)]

RECURSIVE FlattenFrom(_, _)
\* Lines 30-44: the outer forEach, from entry i on.
FlattenFrom(items, i) ==
    IF i > Len(items) THEN <<>>
    ELSE IF ValidSymbolData(items[i])
         THEN StampHistory(items[i].history.items, items[i].symbol)
                  \o FlattenFrom(items, i + 1)
         ELSE FlattenFrom(items, i + 1)

parseLiquidationData(data) ==
    IF ~IsArrayData(data) THEN <<>> ELSE FlattenFrom(data.items, 1)

----------------------------------------------------------------------------
(* convertToCSV.                                                           *)

Comma == ","
Quote == "\""
Newline == "\n"

Includes(cs, c) == \E i \in 1..Len(cs) : cs[i] = c

RECURSIVE DoubleQuotes(_)
\* cellString.replace(/"/g, '""')
DoubleQuotes(cs) ==
    IF cs = <<>> THEN <<>>
    ELSE (IF Head(cs) = Quote THEN <<Quote, Quote>> ELSE <<Head(cs)>>)
             \o DoubleQuotes(Tail(cs))

\* The condition of line 65.
NeedsQuotes(cs) ==
    Includes(cs, Comma) \/ Includes(cs, Newline) \/ Includes(cs, Quote)

EscapeCellNoDoubling(cs) ==
    IF NeedsQuotes(cs) THEN <<Quote>> \o cs \o <<Quote>> ELSE cs

\* Lines 64-68: the rendering of one cell string.
EscapeCell(cs) ==
    IF NeedsQuotes(cs) THEN <<Quote>> \o DoubleQuotes(cs) \o <<Quote>> ELSE cs

\* Lines 62-63: the string of a cell, '' for null and undefined.
CellString(v) ==
    IF v.ty = "null" \/ v.ty = "undefined" THEN <<>> ELSE StringOf(v)

RECURSIVE JoinWith(_, _)
\* Array.prototype.join on an array of texts.
JoinWith(texts, sep) ==
    IF texts = <<>> THEN <<>>
    ELSE IF Len(texts) = 1 THEN texts[1]
    ELSE texts[1] \o <<sep>> \o JoinWith(Tail(texts), sep)

NotPriority(h) == h # "symbol" /\ h # "timestamp_iso"

\* Lines 54-56.
OrderedHeaders(first) ==
    <<"symbol", "timestamp_iso">> \o SelectSeq(Keys(first), NotPriority)

\* Lines 61-69: one data row.
RowString(row, orderedHeaders) ==
    JoinWith([c \in 1..Len(orderedHeaders) |->
                 EscapeCell(CellString(GetProp(row, orderedHeaders[c])))], Comma)

convertToCSV(dataArray) ==
    IF dataArray = <<>> THEN <<>>
    ELSE LET orderedHeaders == OrderedHeaders(dataArray[1])
             headerString ==
                 JoinWith([c \in 1..Len(orderedHeaders) |-> <<orderedHeaders[c]>>], Comma)
             rows == [r \in 1..Len(dataArray) |-> RowString(dataArray[r], orderedHeaders)]
         IN  JoinWith(<<headerString>> \o rows, Newline)

----------------------------------------------------------------------------
(* SpecParse: parseLiquidationData on every bounded body.                  *)

SeqsUpTo(S, n) == UNION {[1..k -> S] : k \in 0..n}

ItemT0 == <<<<"t", Num(0)>>, <<"l", Num(100)>>>>
ItemT == <<<<"t", Num(MsPerDay + 61001)>>, <<"l", Num(100)>>, <<"s", Num(50)>>>>
ItemNoT == <<<<"l", Num(5)>>>>
HistoryItems == {ItemT0, ItemT, ItemNoT}

ParseHistories == {ArrayHistory(hs) : hs \in SeqsUpTo(HistoryItems, MaxHistory)}

\* Entries the flattener skips: null, no symbol, an empty symbol, no history,
\* a history that is no array.
MalformedEntries ==
    {NullEntry,
     Entry(Undefined, ArrayHistory(<<ItemT>>)),
     Entry(Str(<<>>), ArrayHistory(<<ItemT, ItemNoT>>)),
     Entry(Num(0), ArrayHistory(<<ItemT0>>)),
     Entry(Str(<<"BTCUSD">>), NoHistory),
     Entry(Str(<<"BTCUSD">>), ObjectHistory)}

ParseEntries ==
    MalformedEntries
        \cup {Entry(Str(<<"BTCUSD">>), h) : h \in ParseHistories}
        \cup {Entry(Str(<<"ETHUSD">>), ArrayHistory(<<>>)),
              Entry(Str(<<"ETHUSD">>), ArrayHistory(<<ItemNoT, ItemT>>))}

ParseInputs ==
    {NullBody, ObjectBody(Undefined)}
        \cup {ArrayBody(es) : es \in SeqsUpTo(ParseEntries, MaxEntries)}

NoRun ==
    [ran |-> FALSE, apiKey |-> <<>>, symbols |-> <<>>, startDateStr |-> "",
     endDateStr |-> "", fetched |-> FALSE, ok |-> FALSE, httpStatus |-> 0,
     statusText |-> "", bodyIsJson |-> FALSE, body |-> NullBody,
     branch |-> "none", parsed |-> <<>>,
     file |-> [filename |-> "", content |-> <<>>]]

NoFile == NoRun.file

InitPipeIdle ==
    /\ disabled = FALSE
    /\ status = [message |-> "", type |-> "", shown |-> FALSE]
    /\ inflight = <<>>
    /\ fetchCount = 0
    /\ downloads = 0
    /\ alerts = 0
    /\ clicks = 0
    /\ ended = 0
    /\ last = NoRun

InitParse ==
    /\ InitPipeIdle
    /\ downloadSupported = TRUE
    /\ pIn \in ParseInputs
    /\ pOut = [done |-> FALSE, records |-> <<>>]
    /\ cIn = <<>>
    /\ cOut = [done |-> FALSE, csv |-> <<>>]

ParseCall ==
    /\ ~pOut.done
    /\ pOut' = [done |-> TRUE, records |-> parseLiquidationData(pIn)]
    /\ UNCHANGED <<pIn, pipeVars, csvVars>>

NextParse == ParseCall

SpecParse == InitParse /\ [][NextParse]_vars

RECURSIVE ExpectedFrom(_, _)
\* The records the flattener is to return for the entries from i on: for each
\* entry with a truthy symbol and an array history, in order, one
\* <<symbol, history item>> per item, in order.
ExpectedFrom(items, i) ==
    IF i > Len(items) THEN <<>>
    ELSE (IF /\ ~items[i].isNull
             /\ Truthy(items[i].symbol)
             /\ items[i].history.kind = "array"
          THEN [j \in 1..Len(items[i].history.items) |->
                    <<items[i].symbol, items[i].history.items[j]>>]
          ELSE <<>>) \o ExpectedFrom(items, i + 1)

IsNumber(v) == v.ty = "num"

\* C6: every returned record whose `t` is a number, 0 included, carries the
\* timestamp_iso that renders epoch-millisecond t.
C6_NumericTStamped ==
    pOut.done =>
        \A r \in 1..Len(pOut.records) :
            LET t == GetProp(pOut.records[r], "t")
            IN  IsNumber(t) =>
                    GetProp(pOut.records[r], "timestamp_iso")
                        = Str(<<ToISOString(t.n)>>)

----------------------------------------------------------------------------
(* SpecCSV: convertToCSV on bounded record sequences.  The first record    *)
(* ranges over four shapes and every value; the later ones come from       *)
(* OtherRows.                                                              *)

Alphabet == {"a", Comma, Quote, Newline}

CsvStrings == SeqsUpTo(Alphabet, MaxStrLen)

CsvValues == {Str(cs) : cs \in CsvStrings} \cup {Null, Num(100)}

BTC == Str(<<"BTCUSD">>)
ETH == Str(<<"ETHUSD">>)
Iso0 == Str(<<ToISOString(MsPerDay + 61001)>>)

FirstRows ==
    {<<<<"v", v>>, <<"symbol", BTC>>, <<"timestamp_iso", Iso0>>>> : v \in CsvValues}
        \cup {<<<<"v", v>>, <<"symbol", BTC>>>> : v \in CsvValues}
        \cup {<<<<"symbol", v>>, <<"w", Num(5)>>>> : v \in CsvValues}
        \cup {<<<<"v", v>>>> : v \in CsvValues}

OtherRows ==
    {<<<<"v", Str(<<"a", Newline, Quote>>)>>, <<"symbol", ETH>>, <<"timestamp_iso", Iso0>>>>,
     <<<<"symbol", ETH>>, <<"extra", Str(<<"x">>)>>>>,
     <<<<"v", Null>>, <<"w", Str(<<Quote, Quote>>)>>, <<"symbol", ETH>>>>,
     <<<<"timestamp_iso", Iso0>>, <<"v", Str(<<Comma>>)>>, <<"symbol", Str(<<>>)>>>>}

CsvInputs ==
    {<<>>} \cup {<<first>> \o rest :
                    first \in FirstRows, rest \in SeqsUpTo(OtherRows, MaxRows - 1)}

InitCSV ==
    /\ InitPipeIdle
    /\ downloadSupported = TRUE
    /\ pIn = NullBody
    /\ pOut = [done |-> FALSE, records |-> <<>>]
    /\ cIn \in CsvInputs
    /\ cOut = [done |-> FALSE, csv |-> <<>>]

CsvCall ==
    /\ ~cOut.done
    /\ cOut' = [done |-> TRUE, csv |-> convertToCSV(cIn)]
    /\ UNCHANGED <<cIn, pipeVars, parseVars>>

NextCSV == CsvCall

SpecCSV == InitCSV /\ [][NextCSV]_vars

RECURSIVE CsvScan(_, _, _, _, _, _)
\* A reader of CSV by the standard rules (RFC 4180): records end at a line
\* feed outside quotes, fields at a comma outside quotes; a field that opens
\* with a double quote runs to the closing one, a doubled quote inside it
\* standing for one.  mode is "start" (at the start of a field), "plain",
\* "quoted" or "closing" (after a double quote inside a quoted field).
CsvScan(text, i, mode, cell, row, rows) ==
    IF i > Len(text) THEN Append(rows, Append(row, cell))
    ELSE LET c == text[i]
         IN  IF mode = "quoted"
             THEN IF c = Quote
                  THEN CsvScan(text, i + 1, "closing", cell, row, rows)
                  ELSE CsvScan(text, i + 1, "quoted", Append(cell, c), row, rows)
             ELSE IF c = Quote /\ mode = "start"
                  THEN CsvScan(text, i + 1, "quoted", cell, row, rows)
             ELSE IF c = Quote /\ mode = "closing"
                  THEN CsvScan(text, i + 1, "quoted", Append(cell, c), row, rows)
             ELSE IF c = Comma
                  THEN CsvScan(text, i + 1, "start", <<>>, Append(row, cell), rows)
             ELSE IF c = Newline
                  THEN CsvScan(text, i + 1, "start", <<>>, <<>>,
                               Append(rows, Append(row, cell)))
             ELSE CsvScan(text, i + 1, "plain", Append(cell, c), row, rows)

ParseCSV(text) == IF text = <<>> THEN <<>> ELSE CsvScan(text, 1, "start", <<>>, <<>>, <<>>)

IsWrapped(cs) == Len(cs) >= 2 /\ cs[1] = Quote /\ cs[Len(cs)] = Quote

\* The header the claim describes: the first record's keys, symbol and
\* timestamp_iso first when the record has them.
ClaimedHeader(first) ==
    (IF HasProp(first, "symbol") THEN <<"symbol">> ELSE <<>>)
        \o (IF HasProp(first, "timestamp_iso") THEN <<"timestamp_iso">> ELSE <<>>)
        \o SelectSeq(Keys(first), NotPriority)

\* C7: for a non-empty record sequence the header columns are exactly the
\* first record's keys, symbol and timestamp_iso in front only if the first
\* record has them; every data row has one cell per header column, a field
\* the row lacks rendered as the empty string.
C7_HeaderIsFirstKeys ==
    (cOut.done /\ cIn # <<>>) =>
        LET parsed == ParseCSV(cOut.csv)
            header == ClaimedHeader(cIn[1])
        IN  /\ Len(parsed) = Len(cIn) + 1
            /\ parsed[1] = [c \in 1..Len(header) |-> <<header[c]>>]
            /\ \A r \in 1..Len(cIn) :
                  /\ Len(parsed[r + 1]) = Len(header)
                  /\ \A c \in 1..Len(header) :
                        ~HasProp(cIn[r], header[c]) => parsed[r + 1][c] = <<>>

\* C8: reading the output of convertToCSV by the standard CSV rules gives one
\* record per input record after the header, and under every header column
\* the exact string the record holds there; and a cell is rendered wrapped in
\* double quotes exactly when its string holds a comma, a line feed or a
\* double quote.
C8_RoundTrip ==
    (cOut.done /\ cIn # <<>>) =>
        LET parsed == ParseCSV(cOut.csv)
        IN  /\ Len(parsed) = Len(cIn) + 1
            /\ \A k \in 1..Len(cIn[1]) :
                  \E c \in 1..Len(parsed[1]) : parsed[1][c] = <<cIn[1][k][1]>>
            /\ \A r \in 1..Len(cIn) :
                  /\ Len(parsed[r + 1]) = Len(parsed[1])
                  /\ \A c \in 1..Len(parsed[1]) :
                        LET v == GetProp(cIn[r], parsed[1][c][1])
                            rendered == EscapeCell(CellString(v))
                        IN  /\ v.ty = "str" => parsed[r + 1][c] = v.s
                            /\ IsWrapped(rendered)
                                  <=> \E x \in {Comma, Quote, Newline} :
                                         \E i \in 1..Len(CellString(v)) :
                                            CellString(v)[i] = x

\* Two records have been serialised, the first with a value holding a double
\* quote and a comma, the second with one holding a line feed.
C8_Witness ==
    /\ cOut.done
    /\ Len(cIn) = 2
    /\ GetProp(cIn[1], "v") = Str(<<Quote, Comma>>)
    /\ Includes(GetProp(cIn[2], "v").s, Newline)

----------------------------------------------------------------------------
(* fetchAndDownload: the inputs and their validation.                      *)

Blank == " "

RECURSIVE TrimStart(_)
TrimStart(cs) ==
    IF cs # <<>> /\ Head(cs) = Blank THEN TrimStart(Tail(cs)) ELSE cs

RECURSIVE TrimEnd(_)
TrimEnd(cs) ==
    IF cs # <<>> /\ cs[Len(cs)] = Blank THEN TrimEnd(SubSeq(cs, 1, Len(cs) - 1)) ELSE cs

\* String.prototype.trim
Trim(cs) == TrimEnd(TrimStart(cs))

NaN == [nan |-> TRUE, v |-> 0]
Number(k) == [nan |-> FALSE, v |-> k]

DaysParsed == 364

\* The date strings of 1970.
DateStrings == [d \in 0..DaysParsed |-> DateString(d)]

\* new Date(dateStr + 'T..').getTime(): the epoch milliseconds of msOfDay on
\* that day, NaN when dateStr is no YYYY-MM-DD.
DateTimeMs(dateStr, msOfDay) ==
    IF \E d \in 0..DaysParsed : DateStrings[d] = dateStr
    THEN Number((CHOOSE d \in 0..DaysParsed : DateStrings[d] = dateStr) * MsPerDay + msOfDay)
    ELSE NaN

\* Math.floor(ms / 1000)
FloorSeconds(ms) == IF ms.nan THEN NaN ELSE Number(ms.v \div 1000)

\* Line 114.
FromTimestamp(startDateStr) == FloorSeconds(DateTimeMs(startDateStr, 0))

\* Line 115: T23:59:59.999.
ToTimestamp(endDateStr) == FloorSeconds(DateTimeMs(endDateStr, MsPerDay - 1))

\* The condition of line 107, on the trimmed key and symbols.
MissingFields(apiKey, symbols, startDateStr, endDateStr) ==
    apiKey = <<>> \/ symbols = <<>> \/ startDateStr = "" \/ endDateStr = ""

\* The condition of line 117.
InvalidRange(from, to) == from.nan \/ to.nan \/ from.v >= to.v

ValidateNoRangeCheck(apiKey, symbols, startDateStr, endDateStr) ==
    IF MissingFields(Trim(apiKey), Trim(symbols), startDateStr, endDateStr)
    THEN "missing" ELSE "ok"

\* Lines 98-120: which way the validation goes.
Validate(apiKey, symbols, startDateStr, endDateStr) ==
    IF MissingFields(Trim(apiKey), Trim(symbols), startDateStr, endDateStr)
    THEN "missing"
    ELSE IF InvalidRange(FromTimestamp(startDateStr), ToTimestamp(endDateStr))
         THEN "range"
         ELSE "ok"

\* updateStatus(message, type)
Status(message, type) == [message |-> message, type |-> type, shown |-> TRUE]

MsgMissing == "Please fill in API Key, Symbols, Start Date, and End Date."
MsgInvalidRange == "Invalid date range selected."
MsgFetching(symbols, startDateStr, endDateStr) ==
    "Fetching data for " \o Join(symbols) \o " from " \o startDateStr
        \o " to " \o endDateStr \o "..."
MsgNoData == "No liquidation data found for the specified parameters."
MsgNoValid == "No valid history data found after parsing."
MsgSuccess(n) == "Successfully downloaded data for " \o ToString(n) \o " records."
MsgCsvFailed == "Could not convert data to CSV."
MsgError(message) == "Error: " \o message

\* error.message of the exceptions the runtime raises (the browser's wording).
FetchFailedText == "Failed to fetch"
BadJsonText == "Unexpected end of JSON input"
NullReadText == "Cannot read properties of null (reading 'history')"

ApiKeyInputs == {<<>>, <<Blank>>, <<"k">>}
SymbolInputs == {<<>>, <<"B", "/", "c", Blank>>}
DateInputs == {"", "garbage"} \cup {DateString(d) : d \in 0..MaxDay}
IntervalInputs == {"1hour"}

----------------------------------------------------------------------------
(* fetchAndDownload: the responses.                                        *)

ErrorHeads ==
    {[status |-> 429, statusText |-> "Too Many Requests"],
     [status |-> 500, statusText |-> ""]}

ErrorBodies ==
    {NullBody, ObjectBody(Str(<<"rate limited">>)), ObjectBody(Str(<<>>)),
     ObjectBody(Undefined), ArrayBody(<<>>)}

OkEntries ==
    {NullEntry,
     Entry(ETH, ArrayHistory(<<>>)),
     Entry(BTC, NoHistory),
     Entry(BTC, ArrayHistory(<<ItemT, ItemT0>>)),
     Entry(Undefined, ArrayHistory(<<ItemNoT>>))}

OkBodies ==
    {NullBody, ObjectBody(Undefined)}
        \cup {ArrayBody(es) : es \in SeqsUpTo(OkEntries, MaxEntries)}

\* Lines 143-150: the message of the Error thrown for a non-2xx response.
HttpErrorMessage(httpStatus, statusText, bodyIsJson, errorData) ==
    IF bodyIsJson /\ errorData.kind # "null"
    THEN "Error " \o ToString(httpStatus) \o ": "
             \o (IF Truthy(errorData.error)
                 THEN Join(StringOf(errorData.error))
                 ELSE statusText)
    ELSE "HTTP error " \o ToString(httpStatus) \o ": " \o statusText

\* !item.history || item.history.length === 0
HistoryAbsentOrEmpty(item) ==
    \/ item.history.kind = "undefined"
    \/ item.history.kind = "array" /\ item.history.items = <<>>

RECURSIVE EveryHistoryEmpty(_, _)
\* liquidationData.every(item => ...), from item i on: "true", "false", or
\* "throw" when it reaches a null item (the read of item.history).
EveryHistoryEmpty(items, i) ==
    IF i > Len(items) THEN "true"
    ELSE IF items[i].isNull THEN "throw"
    ELSE IF HistoryAbsentOrEmpty(items[i]) THEN EveryHistoryEmpty(items, i + 1)
    ELSE "false"

EmptyResultNoEvery(liquidationData) ==
    IF liquidationData.kind = "null" THEN "true"
    ELSE IF liquidationData.kind = "array" /\ liquidationData.items = <<>> THEN "true"
    ELSE "false"

\* The condition of line 156: "true", "false" or "throw".
EmptyResult(liquidationData) ==
    IF liquidationData.kind = "null" THEN "true"
    ELSE IF liquidationData.kind = "array" /\ liquidationData.items = <<>> THEN "true"
    ELSE IF liquidationData.kind = "array"
         THEN EveryHistoryEmpty(liquidationData.items, 1)
         ELSE "false"

SafeChars ==
    {"a", "b", "c", "d", "e", "f", "g", "h", "i", "j", "k", "l", "m",
     "n", "o", "p", "q", "r", "s", "t", "u", "v", "w", "x", "y", "z",
     "A", "B", "C", "D", "E", "F", "G", "H", "I", "J", "K", "L", "M",
     "N", "O", "P", "Q", "R", "S", "T", "U", "V", "W", "X", "Y", "Z",
     "0", "1", "2", "3", "4", "5", "6", "7", "8", "9", "_", ",", ".", "-"}

MaxSafeSymbols == 50

\* Line 170.
SafeSymbols(symbols) ==
    LET replaced == [i \in 1..Len(symbols) |->
                        IF symbols[i] \in SafeChars THEN symbols[i] ELSE "_"]
    IN  SubSeq(replaced, 1, IF Len(replaced) < MaxSafeSymbols
                            THEN Len(replaced) ELSE MaxSafeSymbols)

\* Line 171.
Filename(symbols, interval, startDateStr, endDateStr) ==
    "coinalyze_liquidations_" \o Join(SafeSymbols(symbols)) \o "_" \o interval
        \o "_" \o startDateStr \o "_to_" \o endDateStr \o ".csv"

\* Lines 154-177 with downloadCSV (76-93): what the handler does with a parsed
\* 2xx body: the branch, the last status it writes, the file it downloads
\* (download), the notice it raises (alert), the flattener's records.
Processed(run, liquidationData, supported) ==
    LET empty == EmptyResult(liquidationData)
        parsedData == parseLiquidationData(liquidationData)
        csvData == convertToCSV(parsedData)
        quiet == [download |-> FALSE, alert |-> FALSE, file |-> NoFile, parsed |-> <<>>]
    IN  IF empty = "throw"
        THEN quiet @@ [branch |-> "threw", status |-> Status(MsgError(NullReadText), "error")]
        ELSE IF empty = "true"
        THEN quiet @@ [branch |-> "empty", status |-> Status(MsgNoData, "info")]
        ELSE IF Len(parsedData) = 0
        THEN quiet @@ [branch |-> "noValid", status |-> Status(MsgNoValid, "info")]
        ELSE IF csvData = <<>>
        THEN [quiet EXCEPT !.parsed = parsedData]
                 @@ [branch |-> "csvFailed", status |-> Status(MsgCsvFailed, "error")]
        ELSE [download |-> supported,
              alert |-> ~supported,
              file |-> [filename |-> Filename(run.trimmedSymbols, run.interval,
                                              run.startDateStr, run.endDateStr),
                        content |-> csvData],
              parsed |-> parsedData,
              branch |-> IF supported THEN "downloaded" ELSE "unsupported",
              status |-> Status(MsgSuccess(Len(parsedData)), "success")]

----------------------------------------------------------------------------
(* fetchAndDownload: the handler as a state machine.  A call suspended at  *)
(* an await is a record of inflight with pc "fetch" (line 139),            *)
(* "errorJson" (line 145) or "json" (line 154).                            *)

BeginNotDisabled == disabled

\* Line 135: the value stored in fetchButton.disabled before the fetch.
BeginDisabled == TRUE

FinallySkipped == disabled

\* Line 184: the value the finally block stores in fetchButton.disabled.
FinallyDisabled == FALSE

RemoveAt(seq, i) == SubSeq(seq, 1, i - 1) \o SubSeq(seq, i + 1, Len(seq))

\* What `last` keeps of a call that has returned.
Ended(run, branch, parsed, file) ==
    [ran |-> TRUE, apiKey |-> run.apiKey, symbols |-> run.symbols,
     startDateStr |-> run.startDateStr, endDateStr |-> run.endDateStr,
     fetched |-> run.fetched, ok |-> run.ok, httpStatus |-> run.httpStatus,
     statusText |-> run.statusText, bodyIsJson |-> run.bodyIsJson,
     body |-> run.body, branch |-> branch, parsed |-> parsed, file |-> file]

\* Lines 97-139: a click on the enabled button runs the handler up to the
\* await of fetch, or to the return of a failed validation.
Click ==
    /\ ~disabled
    /\ clicks < MaxClicks
    /\ \E apiKey \in ApiKeyInputs, symbols \in SymbolInputs,
          startDateStr \in DateInputs, endDateStr \in DateInputs,
          interval \in IntervalInputs :
          LET verdict == Validate(apiKey, symbols, startDateStr, endDateStr)
              run == [apiKey |-> apiKey, symbols |-> symbols,
                      trimmedSymbols |-> Trim(symbols), interval |-> interval,
                      startDateStr |-> startDateStr, endDateStr |-> endDateStr,
                      from |-> FromTimestamp(startDateStr),
                      to |-> ToTimestamp(endDateStr),
                      pc |-> "fetch", fetched |-> verdict = "ok", ok |-> FALSE,
                      httpStatus |-> 0, statusText |-> "",
                      bodyIsJson |-> FALSE, body |-> NullBody]
          IN  /\ clicks' = clicks + 1
              /\ IF verdict = "ok"
                 THEN /\ disabled' = BeginDisabled
                      /\ status' = Status(MsgFetching(run.trimmedSymbols,
                                                      startDateStr, endDateStr), "info")
                      /\ fetchCount' = fetchCount + 1
                      /\ inflight' = Append(inflight, run)
                      /\ last' = NoRun
                      /\ UNCHANGED ended
                 ELSE /\ status' = Status(IF verdict = "missing" THEN MsgMissing
                                          ELSE MsgInvalidRange, "error")
                      /\ ended' = ended + 1
                      /\ last' = Ended(run, verdict, <<>>, NoFile)
                      /\ UNCHANGED <<disabled, fetchCount, inflight>>
    /\ UNCHANGED <<downloads, alerts, downloadSupported, parseVars, csvVars>>

\* Lines 179-185: the catch block reports the error, the finally block
\* re-enables the button, and the call returns.
CatchAndReturn(i, run, branch, message) ==
    /\ status' = Status(MsgError(message), "error")
    /\ disabled' = FinallyDisabled
    /\ inflight' = RemoveAt(inflight, i)
    /\ ended' = ended + 1
    /\ last' = Ended(run, branch, <<>>, NoFile)
    /\ UNCHANGED <<downloads, alerts>>

\* Line 139: the fetch promise rejects (no network, CORS, ...).
FetchRejected(i) ==
    /\ inflight[i].pc = "fetch"
    /\ CatchAndReturn(i, inflight[i], "rejected", FetchFailedText)
    /\ UNCHANGED <<fetchCount, downloadSupported, clicks, parseVars, csvVars>>

\* Lines 139-145 and 154: the fetch promise resolves; the handler goes on to
\* the await of response.json() of its branch.
FetchResolved(i) ==
    /\ inflight[i].pc = "fetch"
    /\ \/ inflight' = [inflight EXCEPT ![i].pc = "json", ![i].ok = TRUE,
                                       ![i].httpStatus = 200, ![i].statusText = "OK"]
       \/ \E head \in ErrorHeads :
             inflight' = [inflight EXCEPT ![i].pc = "errorJson",
                                          ![i].httpStatus = head.status,
                                          ![i].statusText = head.statusText]
    /\ UNCHANGED <<disabled, status, fetchCount, downloads, alerts,
                   downloadSupported, clicks, ended, last, parseVars, csvVars>>

\* Lines 145-152 and 179-185: the body of a non-2xx response has been read
\* (as JSON or not); the handler throws, reports and returns.
ErrorBodyRead(i) ==
    /\ inflight[i].pc = "errorJson"
    /\ \E bodyIsJson \in BOOLEAN, errorData \in ErrorBodies :
          /\ bodyIsJson \/ errorData = NullBody
          /\ LET run == [inflight[i] EXCEPT !.bodyIsJson = bodyIsJson,
                                            !.body = errorData]
             IN  CatchAndReturn(i, run, "httpError",
                                HttpErrorMessage(run.httpStatus, run.statusText,
                                                 bodyIsJson, errorData))
    /\ UNCHANGED <<fetchCount, downloadSupported, clicks, parseVars, csvVars>>

\* Lines 154 and 179-185: the body of a 2xx response is not JSON.
BodyNotJson(i) ==
    /\ inflight[i].pc = "json"
    /\ CatchAndReturn(i, inflight[i], "badJson", BadJsonText)
    /\ UNCHANGED <<fetchCount, downloadSupported, clicks, parseVars, csvVars>>

\* Lines 154-185: the body of a 2xx response has been read as JSON; the
\* handler processes it, downloads or not, and returns through finally.
BodyRead(i) ==
    /\ inflight[i].pc = "json"
    /\ \E liquidationData \in OkBodies :
          LET run == [inflight[i] EXCEPT !.bodyIsJson = TRUE, !.body = liquidationData]
              done == Processed(run, liquidationData, downloadSupported)
          IN  /\ status' = done.status
              /\ downloads' = IF done.download THEN downloads + 1 ELSE downloads
              /\ alerts' = IF done.alert THEN alerts + 1 ELSE alerts
              /\ last' = Ended(run, done.branch, done.parsed,
                               IF done.download THEN done.file ELSE NoFile)
    /\ disabled' = FinallyDisabled
    /\ inflight' = RemoveAt(inflight, i)
    /\ ended' = ended + 1
    /\ UNCHANGED <<fetchCount, downloadSupported, clicks, parseVars, csvVars>>

\* The network settles an await of call i and the continuation runs.
Settle ==
    \E i \in 1..Len(inflight) :
        \/ FetchRejected(i)
        \/ FetchResolved(i)
        \/ ErrorBodyRead(i)
        \/ BodyNotJson(i)
        \/ BodyRead(i)

Init ==
    /\ InitPipeIdle
    /\ downloadSupported \in BOOLEAN
    /\ pIn = NullBody
    /\ pOut = [done |-> FALSE, records |-> <<>>]
    /\ cIn = <<>>
    /\ cOut = [done |-> FALSE, csv |-> <<>>]

Next ==
    \/ Click
    \/ \E i \in 1..Len(inflight) : FetchRejected(i)
    \/ \E i \in 1..Len(inflight) : FetchResolved(i)
    \/ \E i \in 1..Len(inflight) : ErrorBodyRead(i)
    \/ \E i \in 1..Len(inflight) : BodyNotJson(i)
    \/ \E i \in 1..Len(inflight) : BodyRead(i)

Spec == Init /\ [][Next]_vars

\* Every request the browser has issued settles, and the continuation of a
\* settled await is run by the event loop.
FairSpec == Spec /\ WF_vars(Settle)

----------------------------------------------------------------------------
(* The claims about fetchAndDownload.                                      *)

\* A call returns in this step.
Returns == ended' = ended + 1

\* C1: whichever branch a call of fetchAndDownload takes, the button is
\* enabled when the call returns; and, the pending requests settling, a
\* disabled button is eventually enabled again.
C1_ButtonReenabled ==
    /\ [][Returns => ~disabled']_vars
    /\ [](disabled => <>(~disabled))

\* A call that disabled the button has returned through the catch block, an
\* exception having been thrown while the body was processed.
C1_Witness ==
    /\ last.ran
    /\ last.fetched
    /\ last.branch = "threw"
    /\ ~disabled

\* The inputs the validation is to refuse: a field left empty, a date that
\* converts to no number, or from >= to.
RefusedInputs(run) ==
    \/ run.apiKey = <<>>
    \/ run.symbols = <<>>
    \/ run.startDateStr = ""
    \/ run.endDateStr = ""
    \/ FromTimestamp(run.startDateStr).nan
    \/ ToTimestamp(run.endDateStr).nan
    \/ FromTimestamp(run.startDateStr).v >= ToTimestamp(run.endDateStr).v

\* The call a click has just begun: returned already, or suspended.
Begun == IF Returns THEN last' ELSE inflight'[Len(inflight')]

\* C2: a call begun with refused inputs sets an error status and returns at
\* once: no fetch is issued, the button is not disabled, nothing is
\* downloaded.
C2_ValidationHalts ==
    [][(clicks' = clicks + 1 /\ RefusedInputs(Begun)) =>
          /\ Returns
          /\ status'.type = "error"
          /\ status'.message \in {MsgMissing, MsgInvalidRange}
          /\ fetchCount' = fetchCount
          /\ inflight' = inflight
          /\ ~disabled'
          /\ downloads' = downloads]_vars

\* A call with every field filled in and the end date before the start date
\* has returned with the date-range error, no fetch issued.
C2_Witness ==
    /\ last.ran
    /\ ~last.fetched
    /\ Trim(last.apiKey) # <<>>
    /\ Trim(last.symbols) # <<>>
    /\ last.startDateStr = DateString(1)
    /\ last.endDateStr = DateString(0)
    /\ status = Status(MsgInvalidRange, "error")
    /\ fetchCount = 0

\* C3: when the API answers with a non-2xx status S and a JSON body whose
\* `error` is the string E, the status slot shows `Error S: E` with severity
\* error, no file is produced and the button is enabled again.
C3_HttpErrorMessage ==
    [][(/\ Returns
        /\ last'.fetched
        /\ ~last'.ok
        /\ last'.httpStatus # 0
        /\ last'.bodyIsJson
        /\ last'.body.kind = "object"
        /\ last'.body.error.ty = "str") =>
          /\ status'.message = "Error " \o ToString(last'.httpStatus) \o ": "
                                   \o Join(last'.body.error.s)
          /\ status'.type = "error"
          /\ downloads' = downloads
          /\ ~disabled']_vars

\* The bodies of the claim: a non-empty array whose every entry has an empty
\* array as its history.
AllHistoriesEmpty(body) ==
    /\ body.kind = "array"
    /\ body.items # <<>>
    /\ \A k \in 1..Len(body.items) :
          /\ ~body.items[k].isNull
          /\ body.items[k].history = ArrayHistory(<<>>)

EmptyHistoriesAnswered ==
    /\ Returns
    /\ last'.fetched
    /\ last'.ok
    /\ last'.bodyIsJson
    /\ AllHistoriesEmpty(last'.body)

\* C4 as stated: a 2xx body that is a non-empty array of entries with empty
\* histories ends with the status "No valid history data found after
\* parsing." and no file.
C4_NoValidHistory ==
    [][EmptyHistoriesAnswered =>
          /\ status'.message = MsgNoValid
          /\ downloads' = downloads]_vars

\* C4 amended: such a body is an empty result: the status is "No liquidation
\* data found for the specified parameters." (info), the flattener has
\* returned no record, and no file or notice is produced.
C4_EmptyResult ==
    [][EmptyHistoriesAnswered =>
          /\ status' = Status(MsgNoData, "info")
          /\ last'.parsed = <<>>
          /\ last'.file = NoFile
          /\ downloads' = downloads
          /\ alerts' = alerts]_vars

\* The body [{"symbol":"ETHUSD","history":[]}] has been answered.
C4_Witness ==
    /\ last.ran
    /\ last.ok
    /\ last.body = ArrayBody(<<Entry(ETH, ArrayHistory(<<>>))>>)
    /\ status.message = MsgNoData
    /\ downloads = 0

\* C9: at most one call of fetchAndDownload is suspended at any time, and
\* the button is disabled exactly while one is: from the issue of its fetch
\* to its cleanup.
C9_OneCycleInFlight ==
    /\ Len(inflight) <= 1
    /\ disabled <=> inflight # <<>>
    /\ ended + Len(inflight) = clicks

\* A second cycle is in flight, the first having fetched and returned.
C9_Witness ==
    /\ clicks = 2
    /\ fetchCount = 2
    /\ ended = 1
    /\ Len(inflight) = 1
    /\ inflight[1].pc = "json"

\* C10: a call ends with the success status only if a download was triggered
\* in it; where the browser supports no triggered download the user gets the
\* notice and the final status is not the success one.
C10_SuccessMeansDownload ==
    [][Returns =>
          /\ status'.type = "success" => downloads' = downloads + 1
          /\ alerts' = alerts + 1 => status'.type # "success"]_vars

============================================================================
